---- MODULE Spec2Model ----
(***************************************************************************)
(* Model of src/bot.py: the TradingView -> Telegram relay.                 *)
(*                                                                         *)
(* The shared state is the module-level dict position_states and the       *)
(* module-level telegram_bot.  Every webhook request is one run of the     *)
(* coroutine webhook_handler on the asyncio event loop: the code between   *)
(* two awaits runs without interruption, and a handler can be suspended    *)
(* at `await request.json()` (line 229) and at the `await                  *)
(* telegram_bot.send_message(...)` inside send_telegram_message (line 67). *)
(* When telegram_bot is None, send_telegram_message returns False without  *)
(* ever suspending (lines 62-64).  Nothing shared is read or written       *)
(* before `await request.json()` returns, so a handler's first step here   *)
(* runs from the arrival of the request to its first suspension in the     *)
(* sink (or to its response, when nothing suspends it).                    *)
(*                                                                         *)
(* Strings that the code passes through .lower()/.upper()/`in` are         *)
(* sequences of one-character strings; dicts are functions whose DOMAIN is *)
(* the set of keys present; prices are integers.                           *)
(***************************************************************************)
EXTENDS Integers, Sequences, FiniteSets, TLC

VARIABLES
    telegram_bot,     \* bot.py:38   "None" or "Bot"
    position_states,  \* bot.py:41   dict symbol -> dict
    now,              \* the latest value datetime.utcnow() returned
    pc,               \* per handler: where the coroutine stands
    payload,          \* per handler: the local `payload` (bot.py:229)
    message,          \* per handler: the local `message` handed to the sink
    nreq,             \* requests received so far
    last              \* the handler step taken last: what it saw, sent and answered

vars == <<telegram_bot, position_states, now, pc, payload, message,
          nreq, last>>

----------------------------------------------------------------------------
(* Bounds *)

MaxRequests == 3
MaxTime == 1

Handlers == {1, 2}

----------------------------------------------------------------------------
(* Strings *)

UpperAlphabet == <<"A","B","C","D","E","F","G","H","I","J","K","L","M",
                   "N","O","P","Q","R","S","T","U","V","W","X","Y","Z">>
LowerAlphabet == <<"a","b","c","d","e","f","g","h","i","j","k","l","m",
                   "n","o","p","q","r","s","t","u","v","w","x","y","z">>

ToLower == [c \in {UpperAlphabet[i] : i \in 1..26} |->
              LowerAlphabet[CHOOSE i \in 1..26 : UpperAlphabet[i] = c]]
ToUpper == [c \in {LowerAlphabet[i] : i \in 1..26} |->
              UpperAlphabet[CHOOSE i \in 1..26 : LowerAlphabet[i] = c]]

LowerChar(c) == IF c \in DOMAIN ToLower THEN ToLower[c] ELSE c

UpperChar(c) == IF c \in DOMAIN ToUpper THEN ToUpper[c] ELSE c

\* str.lower()
Lower(s) == [i \in 1..Len(s) |-> LowerChar(s[i])]

\* str.upper()
Upper(s) == [i \in 1..Len(s) |-> UpperChar(s[i])]

\* `sub in s`
Contains(sub, s) ==
    \E i \in 1..(Len(s) - Len(sub) + 1) : SubSeq(s, i, i + Len(sub) - 1) = sub

S_entry  == <<"e","n","t","r","y">>
S_exit   == <<"e","x","i","t">>
S_update == <<"u","p","d","a","t","e">>
S_long   == <<"l","o","n","g">>
S_LONG   == <<"L","O","N","G">>
S_SHORT  == <<"S","H","O","R","T">>
S_empty  == << >>

----------------------------------------------------------------------------
(* Dicts *)

EmptyDict == [k \in {} |-> 0]

\* d.get(k, dflt)
Get(d, k, dflt) == IF k \in DOMAIN d THEN d[k] ELSE dflt

\* d[k] = v
Put(d, k, v) == [x \in (DOMAIN d) \cup {k} |-> IF x = k THEN v ELSE d[x]]

----------------------------------------------------------------------------
(* Message Formatter (pure functions).  A message is the record of the     *)
(* values the template interpolates; `t` is datetime.utcnow() at the call. *)
(* Momentum is counted in tenths, prices in whole units.                   *)

MomentumThresholdTenths == -51

S_unknown == <<"u","n","k","n","o","w","n">>

Abs(x) == IF x < 0 THEN -x ELSE x

\* f"{reward / risk:.2f}" in hundredths: the quotient rounded to the nearest
\* hundredth (an exact tie, which needs risk to be a multiple of 8, to even).
RoundRatio(reward, risk) ==
    LET q == (100 * reward) \div risk
        r == (100 * reward) % risk
    IN  IF 2 * r < risk THEN q
        ELSE IF 2 * r > risk THEN q + 1
        ELSE IF q % 2 = 0 THEN q ELSE q + 1

\* bot.py:119-127 with risk and reward exchanged in the quotient
RiskReward_Swapped(direction, entry_price, tp_price, sl_price) ==
    LET risk   == IF Upper(direction) = S_LONG
                  THEN Abs(entry_price - sl_price)
                  ELSE Abs(sl_price - entry_price)
        reward == IF Upper(direction) = S_LONG
                  THEN Abs(tp_price - entry_price)
                  ELSE Abs(entry_price - tp_price)
    IN  [risk |-> risk, reward |-> reward,
         rr_ratio |-> IF reward > 0 THEN RoundRatio(risk, reward) ELSE 0]

\* bot.py:119-127
RiskReward(direction, entry_price, tp_price, sl_price) ==
    LET risk   == IF Upper(direction) = S_LONG
                  THEN Abs(entry_price - sl_price)
                  ELSE Abs(sl_price - entry_price)
        reward == IF Upper(direction) = S_LONG
                  THEN Abs(tp_price - entry_price)
                  ELSE Abs(entry_price - tp_price)
    IN  [risk |-> risk, reward |-> reward,
         rr_ratio |-> IF risk > 0 THEN RoundRatio(reward, risk) ELSE 0]

\* bot.py:79-106 with "momentum <= -5.1" at line 99
format_entry_signal_NonStrict(data, t) ==
    LET signal_type == Get(data, "signal_type", S_unknown)
        momentum    == Get(data, "momentum", 0)
    IN  [kind      |-> "entry",
         direction |-> IF Contains(S_long, Lower(signal_type)) THEN "LONG" ELSE "SHORT",
         symbol    |-> Get(data, "symbol", "UNKNOWN"),
         timeframe |-> Get(data, "timeframe", "7m"),
         price     |-> Get(data, "price", 0),
         momentum  |-> momentum,
         qualifier |-> IF momentum <= MomentumThresholdTenths THEN "below" ELSE "above",
         vwap      |-> Get(data, "vwap", 0),
         timestamp |-> Get(data, "timestamp", t)]

\* bot.py:79-106
format_entry_signal(data, t) ==
    LET signal_type == Get(data, "signal_type", S_unknown)
        momentum    == Get(data, "momentum", 0)
    IN  [kind      |-> "entry",
         direction |-> IF Contains(S_long, Lower(signal_type)) THEN "LONG" ELSE "SHORT",
         symbol    |-> Get(data, "symbol", "UNKNOWN"),
         timeframe |-> Get(data, "timeframe", "7m"),
         price     |-> Get(data, "price", 0),
         momentum  |-> momentum,
         qualifier |-> IF momentum < MomentumThresholdTenths THEN "below" ELSE "above",
         vwap      |-> Get(data, "vwap", 0),
         timestamp |-> Get(data, "timestamp", t)]

\* bot.py:109-148
format_exit_signal(data, t) ==
    LET direction   == Get(data, "direction", S_LONG)
        entry_price == Get(data, "entry_price", 0)
        tp_price    == Get(data, "tp_price", 0)
        sl_price    == Get(data, "sl_price", 0)
    IN  [kind      |-> "exit",
         emoji     |-> IF Upper(direction) = S_LONG THEN "green" ELSE "red",
         symbol    |-> Get(data, "symbol", "UNKNOWN"),
         direction |-> Upper(direction),
         tp_price  |-> tp_price,
         sl_price  |-> sl_price,
         momentum  |-> Get(data, "momentum", 0),
         rr_ratio  |-> RiskReward(direction, entry_price, tp_price, sl_price).rr_ratio,
         timestamp |-> Get(data, "timestamp", t)]

\* bot.py:151-177
format_update_signal(data, t) ==
    LET update_type == Get(data, "update_type", "info")
    IN  [kind      |-> "update",
         emoji     |-> IF update_type = "warning" THEN "warning"
                       ELSE IF update_type = "success" THEN "success"
                       ELSE IF update_type = "error" THEN "error"
                       ELSE "info",
         symbol    |-> Get(data, "symbol", "UNKNOWN"),
         price     |-> Get(data, "price", 0),
         text      |-> Get(data, "message", ""),
         timestamp |-> Get(data, "timestamp", t)]

NoMessage == [kind |-> "none"]

----------------------------------------------------------------------------
(* Signal Dispatcher: the pieces of webhook_handler *)

\* the branches of bot.py:237-266 with the exit test first
Classify_ExitFirst(signal_type) ==
    LET lowered == Lower(signal_type)
    IN  IF Contains(S_exit, lowered) THEN "exit"
        ELSE IF Contains(S_entry, lowered) THEN "entry"
        ELSE IF Contains(S_update, lowered) THEN "update"
        ELSE "unknown"

\* the branches of bot.py:237-272 with the update branch as the final else
Classify_DefaultUpdate(signal_type) ==
    LET lowered == Lower(signal_type)
    IN  IF Contains(S_entry, lowered) THEN "entry"
        ELSE IF Contains(S_exit, lowered) THEN "exit"
        ELSE "update"

\* bot.py:237, 250, 266, 271: the if/elif chain over signal_type.lower()
Classify(signal_type) ==
    LET lowered == Lower(signal_type)
    IN  IF Contains(S_entry, lowered) THEN "entry"
        ELSE IF Contains(S_exit, lowered) THEN "exit"
        ELSE IF Contains(S_update, lowered) THEN "update"
        ELSE "unknown"

\* bot.py:233-234
SignalType(p) == Get(p, "signal_type", S_empty)
Symbol(p) == Get(p, "symbol", "")

\* bot.py:243-248: the dict literal assigned to position_states[symbol]
EntryRecord(p, t) ==
    [status      |-> "accumulating",
     entry_time  |-> t,
     entry_price |-> Get(p, "price", 0),
     direction   |-> IF Contains(S_long, Lower(SignalType(p))) THEN S_LONG ELSE S_SHORT]

\* bot.py:243-248 assigning a new dict to position_states itself: the
\* records of the other symbols go
StoreEntry_Reset(store, p, t) == Put(EmptyDict, Symbol(p), EntryRecord(p, t))

\* what position_states[symbol].update({...}) would do in place of the
\* assignment at bot.py:243-248: the fields of an earlier record stay
StoreEntry_Update(store, p, t) ==
    IF Symbol(p) \in DOMAIN store
    THEN Put(store, Symbol(p),
             [k \in DOMAIN store[Symbol(p)] \cup DOMAIN EntryRecord(p, t) |->
                 IF k \in DOMAIN EntryRecord(p, t) THEN EntryRecord(p, t)[k]
                 ELSE store[Symbol(p)][k]])
    ELSE Put(store, Symbol(p), EntryRecord(p, t))

\* bot.py:243: position_states[symbol] = {...}
StoreEntry(store, p, t) == Put(store, Symbol(p), EntryRecord(p, t))

\* what payload.setdefault(...) would do in place of the assignments at
\* bot.py:254-255: the payload's own direction and entry_price win
MergeState_SetDefault(store, p) ==
    IF Symbol(p) \in DOMAIN store
    THEN Put(Put(p, "direction",
                 Get(p, "direction", Get(store[Symbol(p)], "direction", S_LONG))),
             "entry_price",
             Get(p, "entry_price", Get(store[Symbol(p)], "entry_price", 0)))
    ELSE p

\* bot.py:252-255: the stored direction and entry_price override the payload's
MergeState(store, p) ==
    IF Symbol(p) \in DOMAIN store
    THEN Put(Put(p, "direction", Get(store[Symbol(p)], "direction", S_LONG)),
             "entry_price", Get(store[Symbol(p)], "entry_price", 0))
    ELSE p

\* bot.py:261-262 alone, the two prices written in a later step
StoreExit_StatusOnly(store, p) ==
    IF Symbol(p) \in DOMAIN store
    THEN Put(store, Symbol(p), Put(store[Symbol(p)], "status", "active"))
    ELSE store

\* bot.py:261-264 closing the position with "del position_states[symbol]"
StoreExit_Delete(store, p) == [x \in DOMAIN store \ {Symbol(p)} |-> store[x]]

\* bot.py:261-264 storing the payload's merged view (lines 254-255) along
\* with the three fields
StoreExit_FromView(store, p) ==
    IF Symbol(p) \in DOMAIN store
    THEN Put(store, Symbol(p),
             [status      |-> "active",
              entry_time  |-> store[Symbol(p)].entry_time,
              entry_price |-> Get(p, "entry_price", 0),
              direction   |-> Upper(Get(p, "direction", S_LONG)),
              tp_price    |-> Get(p, "tp_price", 0),
              sl_price    |-> Get(p, "sl_price", 0)])
    ELSE store

\* bot.py:261-264 assigning a new dict of the three fields in place of
\* the update of the stored one
StoreExit_Replace(store, p) ==
    IF Symbol(p) \in DOMAIN store
    THEN Put(store, Symbol(p), [status   |-> "active",
                                tp_price |-> Get(p, "tp_price", 0),
                                sl_price |-> Get(p, "sl_price", 0)])
    ELSE store

\* bot.py:261-264 without the membership test of line 261, on a store that
\* makes a missing record on access
StoreExit_Create(store, p) ==
    Put(store, Symbol(p),
        Put(Put(Put(IF Symbol(p) \in DOMAIN store THEN store[Symbol(p)]
                    ELSE EmptyDict,
                    "status", "active"),
                "tp_price", Get(p, "tp_price", 0)),
            "sl_price", Get(p, "sl_price", 0)))

\* bot.py:261-264: three item assignments on the existing record
StoreExit(store, p) ==
    IF Symbol(p) \in DOMAIN store
    THEN Put(store, Symbol(p),
             Put(Put(Put(store[Symbol(p)], "status", "active"),
                     "tp_price", Get(p, "tp_price", 0)),
                 "sl_price", Get(p, "sl_price", 0)))
    ELSE store

\* bot.py:274-277
SuccessResponse == [status |-> 200, body |-> "success"]

\* bot.py:279-281: every exception raised inside the try block, the
\* HTTPException(401) of line 226 included, becomes HTTPException(500)
ErrorResponse(detail) == [status |-> 500, body |-> detail]

NoResponse == [status |-> 0, body |-> "pending"]

\* bot.py:239, 257, 268: the formatter of the classified path
Format(path, p, t) ==
    IF path = "entry" THEN format_entry_signal(p, t)
    ELSE IF path = "exit" THEN format_exit_signal(p, t)
    ELSE format_update_signal(p, t)

\* bot.py:250-258 without the merge of lines 252-255
WorkingCopy_NoMerge(path, store, p) == p

\* bot.py:252-255: the working copy of the payload that is formatted
WorkingCopy(path, store, p) ==
    IF path = "exit" THEN MergeState(store, p) ELSE p

\* bot.py:266-269 followed by the exit path's update of the record
AfterSend_UpdateActivates(path, store, p, t) ==
    IF path = "entry" THEN StoreEntry(store, p, t) ELSE StoreExit(store, p)

\* bot.py:242-248, 260-264: what follows the sink call on each path
AfterSend(path, store, p, t) ==
    IF path = "entry" THEN StoreEntry(store, p, t)
    ELSE IF path = "exit" THEN StoreExit(store, p)
    ELSE store

\* bot.py:240-248, 258-264 with the write under "if await send_telegram_message"
AfterSink_IfDelivered(outcome, path, store, p, t) ==
    IF outcome = "ok" THEN AfterSend(path, store, p, t) ELSE store

\* bot.py:240-248, 258-264 with the write moved before the sink call: an
\* exception from the sink no longer keeps the write from happening
AfterSink_WrittenBefore(outcome, path, store, p, t) == AfterSend(path, store, p, t)

\* bot.py:240-248, 258-264: the sink's return value is not looked at, so the
\* write follows unless the sink call raised
AfterSink(outcome, path, store, p, t) ==
    IF outcome = "raised" THEN store ELSE AfterSend(path, store, p, t)

\* JSON values of a type the code's operations raise on.  TLC compares only
\* values of one type, so each stands as one value of the field's own type:
\* NotANumber for a str, null or list where a number is formatted or
\* subtracted, NotAString for a number or null where .lower() or .upper() is
\* called, Unhashable for a list or object used as a dict key.
NotANumber == -999
NotAString == <<"#">>
Unhashable == "[]"

\* bot.py:237: signal_type.lower() on a value that is not a str
ClassifyRaises(p) == SignalType(p) = NotAString

\* bot.py:96-100: "{price:.6f}", "momentum < -5.1", "{vwap:.6f}"
EntryFormatRaises(p) ==
    \E k \in {"price", "momentum", "vwap"} : Get(p, k, 0) = NotANumber

\* bot.py:120-127, 136-141: direction.upper(), the differences of the prices
\* and their formats
ExitFormatRaises(p) ==
    \/ Get(p, "direction", S_LONG) = NotAString
    \/ \E k \in {"entry_price", "tp_price", "sl_price", "momentum"} :
          Get(p, k, 0) = NotANumber

\* bot.py:171: "{price:.6f}"
UpdateFormatRaises(p) == Get(p, "price", 0) = NotANumber

\* bot.py:86 reading data['price'] in place of data.get('price', 0): a
\* payload without the key raises KeyError
FormatRaises_OnMissing(path, store, p) == "price" \notin DOMAIN p

\* bot.py:239, 252-257, 268: what raises before the sink is called; on the
\* exit path "symbol in position_states" comes first
FormatRaises(path, store, p) ==
    IF path = "entry" THEN EntryFormatRaises(p)
    ELSE IF path = "exit"
         THEN Symbol(p) = Unhashable \/ ExitFormatRaises(WorkingCopy(path, store, p))
         ELSE UpdateFormatRaises(p)

\* bot.py:243: position_states[symbol] = {...} with a symbol that cannot be a
\* key; the exit path never gets to line 261 with such a symbol
WriteRaises(path, p) == path = "entry" /\ Symbol(p) = Unhashable

\* how the part of the handler after the sink call ends: an exception from
\* the sink call or from the write goes to the except clause of line 279
Completion(outcome, path, p) ==
    IF outcome # "raised" /\ WriteRaises(path, p) THEN "raised" ELSE outcome

\* bot.py:207-215: GET /health
health_check(bot, store) ==
    [status           |-> "healthy",
     telegram_bot     |-> IF bot # "None" THEN "ok" ELSE "error",
     active_positions |-> Cardinality(DOMAIN store)]

\* bot.py:62-64: with no bot the sink returns False and never suspends
SinkSuspends(bot) == bot # "None"

\* bot.py:274-281 raising when send_telegram_message returned False, as
\* bot.py:295-298 does for the test message
ResponseAfter_Surfaced(outcome) ==
    IF outcome = "ok" THEN SuccessResponse
    ELSE ErrorResponse("Failed to send message")

\* bot.py:240, 258, 269 with 274-277: the value send_telegram_message
\* returned is dropped; only an exception changes the response
ResponseAfter(outcome) ==
    IF outcome = "raised" THEN ErrorResponse("sink raised") ELSE SuccessResponse

----------------------------------------------------------------------------
(* Inputs *)

SignalTypes ==
    { <<"e","n","t","r","y","_","l","o","n","g">>,
      <<"E","n","t","r","y","_","S","h","o","r","t","_","E","X","I","T">>,
      <<"E","x","i","t","_","e","N","t","r","y","_","L","O","N","G">>,
      <<"e","x","i","t","_","s","h","o","r","t">>,
      <<"U","P","D","A","T","E">>,
      <<"p","i","n","g">> }

Symbols == {"BTCUSDT", "ETHUSDT"}

\* each option is the part of the JSON object that carries the field, or not
SignalTypeOpts == {EmptyDict} \cup {[signal_type |-> s] : s \in SignalTypes}
SymbolOpts     == {[symbol |-> s, timestamp |-> 9] : s \in Symbols}
FieldOpts      ==
    { EmptyDict,
      [price |-> 2, tp_price |-> 3, sl_price |-> 1,
       direction |-> <<"s","h","o","r","t">>, entry_price |-> 4] }

Payloads ==
    { a @@ b @@ c : a \in SignalTypeOpts, b \in SymbolOpts, c \in FieldOpts }

\* the body of a request that fails the Authorization check is never parsed
Requests ==
    {[auth |-> TRUE, body |-> p] : p \in Payloads}
    \cup {[auth |-> FALSE, body |-> p] :
            p \in {q \in Payloads : /\ Symbol(q) = "BTCUSDT"
                                     /\ "price" \in DOMAIN q
                                     /\ Classify(SignalType(q)) = "entry"}}

\* what the Telegram client can do with a message: deliver it, raise
\* TelegramError (send_telegram_message returns False), raise anything else
SinkOutcomes == {"ok", "failed", "raised"}

----------------------------------------------------------------------------
(* State machine *)

\* the status of the record a step found for its symbol
StatusOf(store, sym) ==
    IF sym \in DOMAIN store THEN store[sym].status ELSE "absent"

NoStep == [step |-> "none", path |-> "none", req |-> EmptyDict, before |-> "absent",
           message |-> NoMessage, delivered |-> "none", response |-> NoResponse]

Init ==
    /\ telegram_bot \in {"None", "Bot"}
    /\ position_states = EmptyDict
    /\ now = 0
    /\ pc = [h \in Handlers |-> "idle"]
    /\ payload = [h \in Handlers |-> EmptyDict]
    /\ message = [h \in Handlers |-> NoMessage]
    /\ nreq = 0
    /\ last = NoStep

\* datetime.utcnow(): the clock never runs backwards; `t` is the latest value
\* read, and a read returns it again or a later one
UtcNow(t) == {u \in t..(t + 1) : u <= MaxTime}

\* bot.py:89, 117, 157: the clock value the formatter shows, if it shows one
FormatTimes(p, t) == IF "timestamp" \in DOMAIN p THEN {t} ELSE UtcNow(t)

\* bot.py:245: only the entry path reads the clock after the sink call
WriteTimes(path, t) == IF path = "entry" THEN UtcNow(t) ELSE {t}

\* bot.py:223-226: the Authorization header is wrong
Reject(h) ==
    /\ last' = [NoStep EXCEPT !.step = "reject",
                              !.response = ErrorResponse("401: Unauthorized")]
    /\ UNCHANGED <<telegram_bot, position_states, now, pc, payload, message>>

\* bot.py:271-277: no substring matches
Unknown(h, p) ==
    /\ last' = [NoStep EXCEPT !.step = "begin", !.path = "unknown", !.req = p,
                              !.before = StatusOf(position_states, Symbol(p)),
                              !.response = SuccessResponse]
    /\ UNCHANGED <<telegram_bot, position_states, now, pc, payload, message>>

\* bot.py:233-257 with 279-281: classifying, looking the symbol up or
\* formatting raised
Fault(h, p, path) ==
    /\ last' = [NoStep EXCEPT !.step = "begin", !.path = path, !.req = p,
                              !.before = StatusOf(position_states, Symbol(p)),
                              !.response = ErrorResponse("raised")]
    /\ UNCHANGED <<telegram_bot, position_states, now, pc, payload, message>>

\* bot.py:237-240, 250-258, 266-269: merge, format, call the sink; with a bot
\* the coroutine is suspended in send_message
BeginSuspend(h, p, path) ==
    LET work == WorkingCopy(path, position_states, p)
    IN  /\ \E t \in FormatTimes(work, now) :
             LET msg == Format(path, work, t)
             IN  /\ now' = t
                 /\ message' = [message EXCEPT ![h] = msg]
                 /\ last' = [step |-> "begin", path |-> path, req |-> p,
                             before |-> StatusOf(position_states, Symbol(p)),
                             message |-> msg,
                             delivered |-> "none", response |-> NoResponse]
        /\ pc' = [pc EXCEPT ![h] = path]
        /\ payload' = [payload EXCEPT ![h] = work]
        /\ UNCHANGED <<telegram_bot, position_states>>

\* bot.py:237-277 with 62-64: without a bot the sink returns False at once and
\* the handler runs to its response
BeginNoBot(h, p, path) ==
    LET work == WorkingCopy(path, position_states, p)
    IN  /\ \E t \in FormatTimes(work, now) : \E u \in WriteTimes(path, t) :
             /\ now' = u
             /\ position_states' = AfterSink(Completion("failed", path, work), path,
                                             position_states, work, u)
             /\ last' = [step |-> "begin", path |-> path, req |-> p,
                         before |-> StatusOf(position_states, Symbol(p)),
                         message |-> Format(path, work, t),
                         delivered |-> "failed",
                         response |-> ResponseAfter(Completion("failed", path, work))]
        /\ UNCHANGED <<telegram_bot, pc, payload, message>>

\* bot.py:219-281 up to the first suspension: a request arrives at a free
\* handler (handlers are interchangeable: the first free one takes it)
Begin(h, req) ==
    /\ pc[h] = "idle"
    /\ \A g \in Handlers : pc[g] = "idle" => ~(g < h)
    /\ nreq < MaxRequests
    /\ nreq' = nreq + 1
    /\ IF ~req.auth
       THEN Reject(h)
       ELSE IF ClassifyRaises(req.body)
       THEN Fault(h, req.body, "none")
       ELSE LET path == Classify(SignalType(req.body))
            IN  IF path = "unknown" THEN Unknown(h, req.body)
                ELSE IF FormatRaises(path, position_states, req.body)
                     THEN Fault(h, req.body, path)
                ELSE IF SinkSuspends(telegram_bot)
                     THEN BeginSuspend(h, req.body, path)
                     ELSE BeginNoBot(h, req.body, path)

\* bot.py:66-76 and 242-248, 260-264, 274-281: the awaited send_message ends
\* and the coroutine runs to its response
SendReturn(h, outcome) ==
    /\ pc[h] \in {"entry", "exit", "update"}
    /\ \E u \in (IF outcome = "raised" THEN {now} ELSE WriteTimes(pc[h], now)) :
         /\ now' = u
         /\ position_states' = AfterSink(Completion(outcome, pc[h], payload[h]), pc[h],
                                         position_states, payload[h], u)
    /\ last' = [step |-> "resume", path |-> pc[h], req |-> EmptyDict,
                before |-> StatusOf(position_states, Symbol(payload[h])),
                message |-> NoMessage,
                delivered |-> outcome,
                response |-> ResponseAfter(Completion(outcome, pc[h], payload[h]))]
    /\ pc' = [pc EXCEPT ![h] = "idle"]
    /\ payload' = [payload EXCEPT ![h] = EmptyDict]
    /\ message' = [message EXCEPT ![h] = NoMessage]
    /\ UNCHANGED <<telegram_bot, nreq>>

Next ==
    \/ \E h \in Handlers, req \in Requests : Begin(h, req)
    \/ \E h \in Handlers, outcome \in SinkOutcomes : SendReturn(h, outcome)

Spec == Init /\ [][Next]_vars

(***************************************************************************)
(* Properties.  A step that takes a request in increases nreq and leaves   *)
(* the request and what was done with it in last'; a step that resumes a   *)
(* suspended handler h takes pc[h] back to "idle", and the payload that    *)
(* handler works on is payload[h] in the state before the step.            *)
(***************************************************************************)
Arrives == nreq' = nreq + 1 /\ last'.step = "begin"
Resumes(h) == pc[h] # "idle" /\ pc'[h] = "idle"
Succeeds == last'.response = SuccessResponse

HasWord(p, word) == Contains(word, Lower(Get(p, "signal_type", S_empty)))
IsEntrySignal(p) == HasWord(p, S_entry)
IsExitSignal(p) == ~HasWord(p, S_entry) /\ HasWord(p, S_exit)
IsUpdateSignal(p) ==
    ~HasWord(p, S_entry) /\ ~HasWord(p, S_exit) /\ HasWord(p, S_update)
IsUnknownSignal(p) ==
    ~HasWord(p, S_entry) /\ ~HasWord(p, S_exit) /\ ~HasWord(p, S_update)
SymbolOf(p) == Get(p, "symbol", "")
EntryDirection(p) == IF HasWord(p, S_long) THEN S_LONG ELSE S_SHORT

\* the store holds for p's symbol exactly the four-field record of an entry
FreshRecord(store, p, t) ==
    /\ SymbolOf(p) \in DOMAIN store
    /\ store[SymbolOf(p)] = [status      |-> "accumulating",
                             entry_time  |-> t,
                             entry_price |-> Get(p, "price", 0),
                             direction   |-> EntryDirection(p)]

\* C1: an entry signal that is handled to a success response leaves, for its
\* symbol, a record with status 'accumulating', the time of the write, the
\* payload's price (0 when absent) and LONG exactly when the signal type has
\* "long" in it; the record has no other field, so an earlier record of the
\* symbol, its tp_price and sl_price included, is gone.
Thm_C1 ==
    [][ /\ \A h \in Handlers :
              (Resumes(h) /\ IsEntrySignal(payload[h]) /\ Succeeds)
                  => FreshRecord(position_states', payload[h], now')
        /\ (Arrives /\ IsEntrySignal(last'.req) /\ Succeeds)
              => FreshRecord(position_states', last'.req, now') ]_vars

\* an entry has just finished over a record that an exit had made 'active'
Wit_C1 ==
    /\ last.path = "entry"
    /\ last.response = SuccessResponse
    /\ last.before = "active"
    /\ \E s \in DOMAIN position_states :
          /\ position_states[s].status = "accumulating"
          /\ "tp_price" \notin DOMAIN position_states[s]

\* the message of an exit built from direction d and entry price e
ExitShows(msg, d, e, p) ==
    /\ msg.kind = "exit"
    /\ msg.direction = Upper(d)
    /\ msg.rr_ratio = RiskReward(d, e, Get(p, "tp_price", 0),
                                 Get(p, "sl_price", 0)).rr_ratio

\* C2: when an exit signal arrives and the store has a record for its symbol,
\* the message shows the record's direction and its risk/reward ratio is
\* computed from the record's entry_price, whatever direction or entry_price
\* the payload carries.
Thm_C2 ==
    [][ (Arrives /\ IsExitSignal(last'.req)
                 /\ SymbolOf(last'.req) \in DOMAIN position_states)
           => ExitShows(last'.message,
                        position_states[SymbolOf(last'.req)].direction,
                        position_states[SymbolOf(last'.req)].entry_price,
                        last'.req) ]_vars

\* an exit whose payload says "short" and entry price 4 was shown as LONG,
\* with a ratio other than the one the payload's own values give
Wit_C2 ==
    /\ last.step = "begin"
    /\ IsExitSignal(last.req)
    /\ last.before # "absent"
    /\ "direction" \in DOMAIN last.req
    /\ last.message.direction # Upper(last.req.direction)
    /\ last.message.rr_ratio #
          RiskReward(last.req.direction, last.req.entry_price,
                     last.req.tp_price, last.req.sl_price).rr_ratio

\* C3: a signal whose type has both "entry" and "exit" in it, in any letter
\* case and in either order, takes the entry path: its message is an entry
\* message, the payload it works on is not merged with the stored record, and
\* what it writes is an 'accumulating' record, never status 'active'.
Thm_C3 ==
    [][ /\ (Arrives /\ HasWord(last'.req, S_entry) /\ HasWord(last'.req, S_exit))
              => /\ last'.message.kind = "entry"
                 /\ \A h \in Handlers :
                       pc'[h] # pc[h] => pc'[h] = "entry" /\ payload'[h] = last'.req
                 /\ \/ position_states' = position_states /\ ~Succeeds
                    \/ FreshRecord(position_states', last'.req, now')
        /\ \A h \in Handlers :
              (Resumes(h) /\ HasWord(payload[h], S_entry)
                          /\ HasWord(payload[h], S_exit))
                 => \/ position_states' = position_states /\ ~Succeeds
                    \/ FreshRecord(position_states', payload[h], now') ]_vars

\* a signal with both words, "exit" first, was handled over an 'active'
\* record and left it 'accumulating'
Wit_C3 ==
    /\ last.step = "begin"
    /\ HasWord(last.req, S_entry) /\ HasWord(last.req, S_exit)
    /\ SubSeq(Lower(SignalType(last.req)), 1, 4) = S_exit
    /\ last.before = "active"
    /\ last.response = SuccessResponse
    /\ position_states[SymbolOf(last.req)].status = "accumulating"

\* C4: a signal whose type has none of "entry", "exit", "update" in it (an
\* absent type included) produces no message, changes no record, leaves no
\* handler occupied, and is answered with the success response.
Thm_C4 ==
    [][ (Arrives /\ IsUnknownSignal(last'.req))
           => /\ last'.message = NoMessage
              /\ last'.delivered = "none"
              /\ position_states' = position_states
              /\ pc' = pc /\ payload' = payload /\ message' = message
              /\ Succeeds ]_vars

\* a signal of type "ping" was answered with success while records exist and
\* a further request can still come
Wit_C4 ==
    /\ last.step = "begin"
    /\ "signal_type" \in DOMAIN last.req
    /\ IsUnknownSignal(last.req)
    /\ last.response = SuccessResponse
    /\ last.before # "absent"
    /\ nreq < MaxRequests

\* the store after an exit for p's symbol: status, tp_price and sl_price set,
\* the record's other fields and the other symbols' records as they were
Activated(old, new, p) ==
    /\ DOMAIN new = DOMAIN old
    /\ \A s \in DOMAIN old \ {SymbolOf(p)} : new[s] = old[s]
    /\ DOMAIN new[SymbolOf(p)] =
          DOMAIN old[SymbolOf(p)] \cup {"status", "tp_price", "sl_price"}
    /\ new[SymbolOf(p)].status = "active"
    /\ new[SymbolOf(p)].tp_price = Get(p, "tp_price", 0)
    /\ new[SymbolOf(p)].sl_price = Get(p, "sl_price", 0)
    /\ \A k \in DOMAIN old[SymbolOf(p)] \ {"status", "tp_price", "sl_price"} :
          new[SymbolOf(p)][k] = old[SymbolOf(p)][k]

\* C5: an exit signal that is handled to a success response while a record
\* exists for its symbol sets on that record status 'active', tp_price and
\* sl_price (0 for an absent one) and nothing else: entry_time, entry_price
\* and direction stay, and so does every other symbol's record.
Thm_C5 ==
    [][ /\ \A h \in Handlers :
              (Resumes(h) /\ IsExitSignal(payload[h]) /\ Succeeds
                          /\ SymbolOf(payload[h]) \in DOMAIN position_states)
                 => Activated(position_states, position_states', payload[h])
        /\ (Arrives /\ IsExitSignal(last'.req) /\ Succeeds
                    /\ SymbolOf(last'.req) \in DOMAIN position_states)
              => Activated(position_states, position_states', last'.req) ]_vars

\* an exit has just made an 'accumulating' record 'active' while the other
\* symbol has a record too
Wit_C5 ==
    /\ last.path = "exit"
    /\ last.response = SuccessResponse
    /\ last.before = "accumulating"
    /\ Cardinality(DOMAIN position_states) = 2
    /\ \E s \in DOMAIN position_states :
          /\ position_states[s].status = "active"
          /\ DOMAIN position_states[s] =
                {"status", "entry_time", "entry_price", "direction",
                 "tp_price", "sl_price"}

\* C6: when an exit signal arrives and the store has no record for its
\* symbol, the message is built from the payload's own direction ("LONG"
\* when absent) and entry_price (0 when absent) and is handed to the sink;
\* no step of an exit handler adds a record, so a symbol without a record
\* when the handler writes has none when it has finished.
Thm_C6 ==
    [][ /\ (Arrives /\ IsExitSignal(last'.req)
                    /\ SymbolOf(last'.req) \notin DOMAIN position_states)
              => /\ ExitShows(last'.message,
                              Get(last'.req, "direction", S_LONG),
                              Get(last'.req, "entry_price", 0), last'.req)
                 /\ \/ last'.delivered = "failed"
                    \/ \E h \in Handlers :
                          /\ pc[h] = "idle" /\ pc'[h] = "exit"
                          /\ message'[h] = last'.message
                 /\ position_states' = position_states
        /\ \A h \in Handlers :
              (Resumes(h) /\ IsExitSignal(payload[h])
                          /\ SymbolOf(payload[h]) \notin DOMAIN position_states)
                 => position_states' = position_states ]_vars

\* an exit_short signal without a direction of its own was shown as LONG and
\* has finished with success, and its symbol still has no record
Wit_C6 ==
    /\ last.step = "begin"
    /\ IsExitSignal(last.req)
    /\ HasWord(last.req, <<"s", "h", "o", "r", "t">>)
    /\ "direction" \notin DOMAIN last.req
    /\ last.before = "absent"
    /\ last.message.kind = "exit"
    /\ last.message.direction = S_LONG
    /\ last.response = SuccessResponse
    /\ SymbolOf(last.req) \notin DOMAIN position_states
    /\ DOMAIN position_states # {}

\* C7: an update signal neither reads nor changes the store: the payload it
\* works on is the request's, its message is the one format_update_signal
\* gives for the request alone, and no step of its handler changes a record.
Thm_C7 ==
    [][ /\ (Arrives /\ IsUpdateSignal(last'.req))
              => /\ last'.message.kind = "update"
                 /\ last'.message.symbol = Get(last'.req, "symbol", "UNKNOWN")
                 /\ last'.message.price = Get(last'.req, "price", 0)
                 /\ last'.message.text = Get(last'.req, "message", "")
                 /\ last'.message.timestamp = Get(last'.req, "timestamp", now')
                 /\ \A h \in Handlers :
                       pc'[h] # pc[h] => payload'[h] = last'.req
                 /\ position_states' = position_states
        /\ \A h \in Handlers :
              (Resumes(h) /\ IsUpdateSignal(payload[h]))
                 => position_states' = position_states ]_vars

\* an update has finished with success over a store that holds a record for
\* its symbol
Wit_C7 ==
    /\ last.path = "update"
    /\ last.response = SuccessResponse
    /\ last.before # "absent"
    /\ last.delivered \in {"ok", "failed"}

\* an exit for the symbol of the entry handler g is still working on arrives
ExitOvertakes(g) ==
    /\ Arrives /\ IsExitSignal(last'.req)
    /\ pc[g] = "entry"
    /\ SymbolOf(payload[g]) = SymbolOf(last'.req)

\* C8 as the claim states it: an exit that arrives while an entry for the
\* same symbol is being handled shows the direction and the entry price of
\* that entry, as it would if the entry had been handled to its end first.
Orig_C8 ==
    [][ \A g \in Handlers :
           ExitOvertakes(g)
              => ExitShows(last'.message, EntryDirection(payload[g]),
                           Get(payload[g], "price", 0), last'.req) ]_vars

\* C8: an exit that arrives while an entry for the same symbol is being
\* handled is built from the store as it is at that moment: from the record
\* an earlier, finished entry left when there is one, and from the payload's
\* own direction and entry_price (LONG and 0 when absent) when there is
\* none; the entry that is still waiting for its sink call has written nothing
\* and is not seen.
Thm_C8 ==
    [][ \A g \in Handlers :
           ExitOvertakes(g)
              => IF SymbolOf(last'.req) \in DOMAIN position_states
                 THEN ExitShows(last'.message,
                                position_states[SymbolOf(last'.req)].direction,
                                position_states[SymbolOf(last'.req)].entry_price,
                                last'.req)
                 ELSE ExitShows(last'.message,
                                Get(last'.req, "direction", S_LONG),
                                Get(last'.req, "entry_price", 0),
                                last'.req) ]_vars

\* an entry and an exit for one symbol are both waiting for their sink calls,
\* the exit came second, and its message shows another direction than the
\* entry's
Wit_C8 ==
    \E g, h \in Handlers :
        /\ pc[g] = "entry" /\ pc[h] = "exit"
        /\ SymbolOf(payload[g]) = SymbolOf(payload[h])
        /\ last.step = "begin" /\ last.path = "exit"
        /\ message[h] = last.message
        /\ message[h].direction # EntryDirection(payload[g])

\* C9: when the sink reports a failed delivery (no bot, or a TelegramError),
\* the handler writes what it writes after a delivered message: an entry
\* leaves its fresh record, an exit on an existing record sets status
\* 'active', tp_price and sl_price.
Thm_C9 ==
    [][ /\ \A h \in Handlers :
              (Resumes(h) /\ last'.delivered = "failed")
                 => /\ IsEntrySignal(payload[h])
                          => FreshRecord(position_states', payload[h], now')
                    /\ (IsExitSignal(payload[h])
                          /\ SymbolOf(payload[h]) \in DOMAIN position_states)
                          => Activated(position_states, position_states',
                                       payload[h])
        /\ (Arrives /\ last'.delivered = "failed")
              => /\ IsEntrySignal(last'.req)
                       => FreshRecord(position_states', last'.req, now')
                 /\ (IsExitSignal(last'.req)
                       /\ SymbolOf(last'.req) \in DOMAIN position_states)
                       => Activated(position_states, position_states',
                                    last'.req) ]_vars

\* with a bot configured, the delivery of an exit's message failed and the
\* record is 'active' all the same
Wit_C9 ==
    /\ telegram_bot = "Bot"
    /\ last.step = "resume"
    /\ last.path = "exit"
    /\ last.delivered = "failed"
    /\ last.before = "accumulating"
    /\ \E s \in DOMAIN position_states : position_states[s].status = "active"

\* C10 as the claim states it: the response to a signal whose delivery
\* failed differs from the response to a delivered one.
Orig_C10 == last.delivered = "failed" => last.response # SuccessResponse

\* C10: the response after a failed delivery is the success response of a
\* delivered one; the response differs (status 500) only when the sink call
\* raised.
Thm_C10 ==
    /\ last.delivered \in {"ok", "failed"} => last.response = SuccessResponse
    /\ last.delivered = "raised" => last.response.status = 500
    /\ last.response = SuccessResponse /\ last.path # "unknown"
          => last.delivered \in {"ok", "failed"}

\* with a bot configured, a delivery failed and the response was success
Wit_C10 ==
    /\ telegram_bot = "Bot"
    /\ last.step = "resume"
    /\ last.delivered = "failed"
    /\ last.response = SuccessResponse

\* a request without the right Authorization header is answered
Rejected == nreq' = nreq + 1 /\ last'.step = "reject"

\* C11 as the claim states it: a request whose Authorization header is not
\* "Bearer <WEBHOOK_SECRET>" is answered with status 401, no message is
\* produced for it and neither the store nor any handler's frame changes.
Orig_C11 ==
    [][ Rejected
           => /\ last'.response.status = 401
              /\ last'.message = NoMessage
              /\ position_states' = position_states
              /\ pc' = pc /\ payload' = payload /\ message' = message ]_vars

\* an unauthorised entry for a symbol that has a record was answered with
\* status 500, the record standing as it was
Wit_C11 ==
    /\ last.step = "reject"
    /\ last.response.status = 500
    /\ "BTCUSDT" \in DOMAIN position_states

(***************************************************************************)
(* format_exit_signal on its own: the payload of handler 1 is any exit     *)
(* payload over a range of prices, and the only step formats it.           *)
(***************************************************************************)
MaxPrice == 4
Prices == (0..MaxPrice) \cup {44000, 45000, 46000}
Directions == {S_LONG, S_SHORT, S_long, <<"s", "h", "o", "r", "t">>}
ExitPayloads ==
    {[symbol |-> "BTCUSDT", entry_price |-> e, tp_price |-> t, sl_price |-> s] :
        e \in Prices, t \in Prices, s \in Prices}
    \cup {[symbol |-> "BTCUSDT", direction |-> d,
           entry_price |-> e, tp_price |-> t, sl_price |-> s] :
             d \in Directions, e \in Prices, t \in Prices, s \in Prices}

InitExitFormat ==
    /\ telegram_bot = "None"
    /\ position_states = EmptyDict
    /\ now = 0
    /\ pc = [h \in Handlers |-> "idle"]
    /\ payload \in {[h \in Handlers |-> IF h = 1 THEN p ELSE EmptyDict] :
                       p \in ExitPayloads}
    /\ message = [h \in Handlers |-> NoMessage]
    /\ nreq = 0
    /\ last = NoStep

\* bot.py:257: message = format_exit_signal(payload)
FormatExit ==
    /\ message[1] = NoMessage
    /\ message' = [message EXCEPT ![1] = format_exit_signal(payload[1], now)]
    /\ UNCHANGED <<telegram_bot, position_states, now, pc, payload, nreq, last>>

SpecExitFormat == InitExitFormat /\ [][FormatExit]_vars

Distance(a, b) == IF a > b THEN a - b ELSE b - a

\* C12: the ratio in the exit message (in hundredths, as "1:%.2f" prints it)
\* is 0 when risk = 0 and reward/risk to the nearest hundredth when risk > 0,
\* with risk = |entry_price - sl_price| and reward = |tp_price - entry_price|
\* for LONG and the mirrored differences for SHORT; entry 45000, sl 44000,
\* tp 46000 gives 1.00.
Thm_C12 ==
    message[1].kind = "exit" =>
        LET p      == payload[1]
            long   == Upper(Get(p, "direction", S_LONG)) = S_LONG
            risk   == IF long THEN Distance(p.entry_price, p.sl_price)
                      ELSE Distance(p.sl_price, p.entry_price)
            reward == IF long THEN Distance(p.tp_price, p.entry_price)
                      ELSE Distance(p.entry_price, p.tp_price)
            ratio  == message[1].rr_ratio
        IN  /\ risk = 0 => ratio = 0
            /\ risk > 0 => 2 * Distance(ratio * risk, 100 * reward) <= risk
            /\ (p.entry_price = 45000 /\ p.sl_price = 44000 /\ p.tp_price = 46000)
                  => risk = 1000 /\ reward = 1000 /\ ratio = 100

\* the exit message of the example: LONG, entry 45000, sl 44000, tp 46000,
\* ratio 1.00
Wit_C12 ==
    /\ message[1].kind = "exit"
    /\ message[1].direction = S_LONG
    /\ payload[1].entry_price = 45000
    /\ payload[1].sl_price = 44000
    /\ payload[1].tp_price = 46000
    /\ message[1].rr_ratio = 100

(***************************************************************************)
(* One request whose payload has any subset of the optional fields, on an  *)
(* empty store or on one that earlier entries have filled.                 *)
(***************************************************************************)
OptionalFields ==
    [price |-> 2, momentum |-> -53, vwap |-> 3, tp_price |-> 3, sl_price |-> 1,
     direction |-> <<"s","h","o","r","t">>, timeframe |-> "15m",
     update_type |-> "warning", message |-> "text", timestamp |-> 9,
     symbol |-> "BTCUSDT"]
PartialPayloads ==
    { a @@ [k \in ks |-> OptionalFields[k]] :
        a \in {EmptyDict,
               [signal_type |-> <<"e","n","t","r","y","_","l","o","n","g">>],
               [signal_type |-> <<"e","x","i","t","_","s","h","o","r","t">>],
               [signal_type |-> <<"U","P","D","A","T","E">>]},
        ks \in SUBSET DOMAIN OptionalFields }
PartialRequests == {[auth |-> TRUE, body |-> p] : p \in PartialPayloads}

\* the store after an entry for BTCUSDT and one without a symbol
PriorStore ==
    StoreEntry(StoreEntry(EmptyDict,
                          [signal_type |-> <<"e","n","t","r","y","_","l","o","n","g">>,
                           symbol |-> "BTCUSDT", price |-> 4], 0),
               [signal_type |-> <<"e","n","t","r","y","_","l","o","n","g">>], 0)

InitDefaults ==
    /\ telegram_bot \in {"None", "Bot"}
    /\ position_states \in {EmptyDict, PriorStore}
    /\ now = 0
    /\ pc = [h \in Handlers |-> "idle"]
    /\ payload = [h \in Handlers |-> EmptyDict]
    /\ message = [h \in Handlers |-> NoMessage]
    /\ nreq = 0
    /\ last = NoStep

NextDefaults ==
    \/ \E req \in PartialRequests : nreq = 0 /\ Begin(1, req)
    \/ \E h \in Handlers, outcome \in SinkOutcomes : SendReturn(h, outcome)

SpecDefaults == InitDefaults /\ [][NextDefaults]_vars

\* the message shows the default of every field the payload lacks; lo..hi
\* are the clock values read during the step
DefaultsShown(msg, p, record, lo, hi) ==
    /\ "symbol" \notin DOMAIN p => msg.symbol = "UNKNOWN"
    /\ "timestamp" \notin DOMAIN p => msg.timestamp \in lo..hi
    /\ msg.kind = "entry" =>
          /\ "price" \notin DOMAIN p => msg.price = 0
          /\ "momentum" \notin DOMAIN p => msg.momentum = 0
          /\ "vwap" \notin DOMAIN p => msg.vwap = 0
          /\ "timeframe" \notin DOMAIN p => msg.timeframe = "7m"
    /\ msg.kind = "exit" =>
          /\ "tp_price" \notin DOMAIN p => msg.tp_price = 0
          /\ "sl_price" \notin DOMAIN p => msg.sl_price = 0
          /\ "momentum" \notin DOMAIN p => msg.momentum = 0
          /\ ("direction" \notin DOMAIN p /\ ~record) => msg.direction = S_LONG
    /\ msg.kind = "update" =>
          /\ "price" \notin DOMAIN p => msg.price = 0
          /\ "message" \notin DOMAIN p => msg.text = ""

\* the record shows 0 for a price the payload lacks
DefaultsStored(store, p) ==
    /\ (IsEntrySignal(p) /\ "price" \notin DOMAIN p)
          => /\ SymbolOf(p) \in DOMAIN store
             /\ store[SymbolOf(p)].entry_price = 0
    /\ (IsExitSignal(p) /\ SymbolOf(p) \in DOMAIN store)
          => /\ "tp_price" \notin DOMAIN p => store[SymbolOf(p)].tp_price = 0
             /\ "sl_price" \notin DOMAIN p => store[SymbolOf(p)].sl_price = 0

\* C13: whatever subset of the optional fields a payload lacks, handling it
\* never ends in an error unless the sink call itself raises: the message
\* shows 0, "UNKNOWN", "7m", "" or the current time for what is missing, the
\* stored record has 0 for a missing price, tp_price or sl_price, and the
\* response is the success response.
Thm_C13 ==
    [][ /\ Arrives
              => /\ last'.response.status # 500
                 /\ last'.message = NoMessage => Succeeds
                 /\ last'.message # NoMessage
                       => DefaultsShown(last'.message, last'.req,
                                        SymbolOf(last'.req) \in DOMAIN position_states,
                                        now, now')
                 /\ Succeeds => DefaultsStored(position_states', last'.req)
        /\ \A h \in Handlers :
              (Resumes(h) /\ last'.delivered # "raised")
                 => /\ Succeeds
                    /\ DefaultsStored(position_states', payload[h]) ]_vars

\* an entry whose payload is the signal type alone was handled to success:
\* the message shows "UNKNOWN", price 0 and the current time, and the record
\* under the empty symbol has entry_price 0
Wit_C13 ==
    /\ last.step = "begin"
    /\ DOMAIN last.req = {"signal_type"}
    /\ last.message.kind = "entry"
    /\ last.message.symbol = "UNKNOWN"
    /\ last.message.price = 0
    /\ last.response = SuccessResponse
    /\ "" \in DOMAIN position_states
    /\ position_states[""].entry_price = 0
    /\ position_states[""].entry_time = now

\* handler h calls the sink and is suspended in the call
CallsSink(h) == pc[h] = "idle" /\ pc'[h] # "idle"

\* C14 as the claim states it: when the sink is called for an entry or exit
\* signal, the signal's write has been applied: the entry's record is in the
\* store, the record the exit found is 'active' with its tp_price.
Orig_C14 ==
    [][ \A h \in Handlers :
           CallsSink(h)
              => /\ pc'[h] = "entry"
                       => FreshRecord(position_states', payload'[h], now')
                 /\ (pc'[h] = "exit"
                       /\ SymbolOf(payload'[h]) \in DOMAIN position_states)
                       => Activated(position_states, position_states',
                                    payload'[h]) ]_vars

\* C14: the order is format, sink, write: the step that hands the formatted
\* text to the sink changes no record; the write is applied when the sink
\* call has returned, and not at all when that call raised.
Thm_C14 ==
    [][ \A h \in Handlers :
           /\ CallsSink(h)
                 => /\ message'[h] = last'.message
                    /\ message'[h].kind = pc'[h]
                    /\ position_states' = position_states
           /\ (Resumes(h) /\ last'.delivered = "raised")
                 => position_states' = position_states
           /\ (Resumes(h) /\ last'.delivered # "raised")
                 => /\ pc[h] = "entry"
                          => FreshRecord(position_states', payload[h], now')
                    /\ (pc[h] = "exit"
                          /\ SymbolOf(payload[h]) \in DOMAIN position_states)
                          => Activated(position_states, position_states',
                                       payload[h]) ]_vars

\* the sink has the text of an entry whose symbol has no record yet
Wit_C14 ==
    \E h \in Handlers :
        /\ pc[h] = "entry"
        /\ message[h].kind = "entry"
        /\ last.step = "begin" /\ last.message = message[h]
        /\ SymbolOf(payload[h]) \notin DOMAIN position_states

\* handler h is suspended in the sink call of an exit whose text does not
\* show the record its symbol has now: another handler wrote in between
StaleExit(h) ==
    /\ pc[h] = "exit"
    /\ SymbolOf(payload[h]) \in DOMAIN position_states
    /\ message[h].direction # position_states[SymbolOf(payload[h])].direction

\* C15: nothing keeps two handlers of one symbol apart.  An exit that was
\* suspended in the sink call while an entry wrote a new record for its
\* symbol goes on to set status 'active' and its tp_price and sl_price on that
\* new record, whose direction its text never showed; an entry that resumes
\* over a record another entry wrote meanwhile replaces it with its own.
Thm_C15 ==
    [][ \A h \in Handlers :
           /\ (StaleExit(h) /\ Resumes(h) /\ last'.delivered # "raised")
                 => LET s   == SymbolOf(payload[h])
                        old == position_states[s]
                        new == position_states'[s]
                    IN  /\ new.status = "active"
                        /\ new.tp_price = Get(payload[h], "tp_price", 0)
                        /\ new.sl_price = Get(payload[h], "sl_price", 0)
                        /\ new.direction = old.direction
                        /\ new.entry_price = old.entry_price
                        /\ new.entry_time = old.entry_time
                        /\ new.direction # message[h].direction
           /\ (pc[h] = "entry" /\ Resumes(h) /\ last'.delivered # "raised"
                 /\ SymbolOf(payload[h]) \in DOMAIN position_states
                 /\ position_states[SymbolOf(payload[h])].direction
                       # EntryDirection(payload[h]))
                 => /\ FreshRecord(position_states', payload[h], now')
                    /\ position_states'[SymbolOf(payload[h])].direction
                          # position_states[SymbolOf(payload[h])].direction ]_vars

\* the second of two requests, an exit for a symbol without a record, built
\* its text from its own payload and is suspended in the sink call; the
\* entry that had arrived first has since written its record, with another
\* direction
Wit_C15 ==
    /\ nreq = 2
    /\ pc[1] = "idle"
    /\ StaleExit(2)
    /\ last.step = "resume" /\ last.path = "entry"
    /\ last.before = "absent"
    /\ position_states[SymbolOf(payload[2])].status = "accumulating"

\* the part of a store that is the record of symbol s, if there is one
RecordOf(store, s) == [x \in DOMAIN store \cap {s} |-> store[x]]

\* no symbol other than s has a record added, removed or changed
OthersKept(old, new, s) ==
    /\ DOMAIN new \ {s} = DOMAIN old \ {s}
    /\ \A x \in DOMAIN old \ {s} : new[x] = old[x]

\* C16: a step of a handler working on symbol s adds, removes and changes no
\* record of another symbol, and the record it leaves for s is the one the
\* same step leaves when the store holds nothing but the record of s; so the
\* record of each symbol is the outcome of that symbol's handlers alone, in
\* the order of their steps.
Thm_C16 ==
    [][ /\ Arrives
              => /\ OthersKept(position_states, position_states',
                               SymbolOf(last'.req))
                 /\ \/ position_states' = position_states
                    \/ RecordOf(position_states', SymbolOf(last'.req))
                          = RecordOf(AfterSink("failed", last'.path,
                                               RecordOf(position_states,
                                                        SymbolOf(last'.req)),
                                               WorkingCopy(last'.path,
                                                   RecordOf(position_states,
                                                            SymbolOf(last'.req)),
                                                   last'.req),
                                               now'),
                                     SymbolOf(last'.req))
        /\ Rejected => position_states' = position_states
        /\ \A h \in Handlers :
              Resumes(h)
                 => /\ OthersKept(position_states, position_states',
                                  SymbolOf(payload[h]))
                    /\ RecordOf(position_states', SymbolOf(payload[h]))
                          = RecordOf(AfterSink(last'.delivered, pc[h],
                                               RecordOf(position_states,
                                                        SymbolOf(payload[h])),
                                               payload[h], now'),
                                     SymbolOf(payload[h])) ]_vars

\* an exit has made the record of one symbol 'active' while an entry for a
\* symbol that has no record yet is suspended in the sink call
Wit_C16 ==
    \E h \in Handlers :
        /\ pc[h] = "entry"
        /\ SymbolOf(payload[h]) \notin DOMAIN position_states
        /\ last.step = "resume" /\ last.path = "exit"
        /\ last.before = "accumulating"
        /\ last.delivered # "raised"
        /\ \E s \in DOMAIN position_states : position_states[s].status = "active"

\* the step in which handler h, or the handler of the arriving request,
\* performs the write of an entry for symbol s
EntryWrites(s) ==
    \/ /\ Arrives /\ IsEntrySignal(last'.req) /\ Succeeds
       /\ SymbolOf(last'.req) = s
    \/ \E h \in Handlers :
          /\ Resumes(h) /\ pc[h] = "entry" /\ Succeeds
          /\ SymbolOf(payload[h]) = s

\* C17: the store starts empty and no step removes a symbol from it, so the
\* count /health reports never goes down; a step adds a symbol exactly when
\* it is the write of an entry for that symbol, and after such a write the
\* symbol is in the store; exit, update and unrecognised signals add none.
Thm_C17 ==
    /\ position_states = EmptyDict
    /\ [][ /\ DOMAIN position_states \subseteq DOMAIN position_states'
           /\ health_check(telegram_bot', position_states').active_positions
                 >= health_check(telegram_bot, position_states).active_positions
           /\ \A s \in DOMAIN position_states' \ DOMAIN position_states :
                 EntryWrites(s)
           /\ \A s \in {"", "BTCUSDT", "ETHUSDT"} :
                 EntryWrites(s) => s \in DOMAIN position_states' ]_vars

\* after three requests /health counts two symbols, the last request being
\* an entry for a symbol that had a record already
Wit_C17 ==
    /\ nreq = 3
    /\ last.path = "entry"
    /\ last.response = SuccessResponse
    /\ last.before # "absent"
    /\ health_check(telegram_bot, position_states).active_positions = 2

\* C18: in every reachable state each record has status 'accumulating' or
\* 'active', has entry_time, entry_price and a direction that is LONG or
\* SHORT, and has tp_price and sl_price exactly when its status is 'active';
\* no state between two handler steps shows an 'active' record without them.
Thm_C18 ==
    \A s \in DOMAIN position_states :
        LET r == position_states[s]
        IN  /\ {"status", "entry_time", "entry_price", "direction"}
                  \subseteq DOMAIN r
            /\ DOMAIN r \subseteq {"status", "entry_time", "entry_price",
                                   "direction", "tp_price", "sl_price"}
            /\ r.status \in {"accumulating", "active"}
            /\ r.direction \in {S_LONG, S_SHORT}
            /\ "tp_price" \in DOMAIN r <=> r.status = "active"
            /\ "sl_price" \in DOMAIN r <=> r.status = "active"

\* while an entry is suspended in the sink call the store holds an 'active'
\* record with both prices
Wit_C18 ==
    /\ \E h \in Handlers : pc[h] = "entry"
    /\ \E s \in DOMAIN position_states :
          /\ position_states[s].status = "active"
          /\ {"tp_price", "sl_price"} \subseteq DOMAIN position_states[s]

(***************************************************************************)
(* Requests that end in an error: values of the wrong type, a symbol that  *)
(* cannot be a key, a wrong Authorization header; a few well-formed ones   *)
(* keep the store changing around them.                                    *)
(***************************************************************************)
GoodEntry ==
    [signal_type |-> <<"e","n","t","r","y","_","s","h","o","r","t">>,
     symbol |-> "BTCUSDT", price |-> 2, timestamp |-> 9]
GoodExit ==
    [signal_type |-> <<"e","x","i","t","_","s","h","o","r","t">>,
     symbol |-> "BTCUSDT", tp_price |-> 3, sl_price |-> 1, timestamp |-> 9]
GoodUpdate ==
    [signal_type |-> <<"U","P","D","A","T","E">>,
     symbol |-> "BTCUSDT", price |-> 2, timestamp |-> 9]
FaultPayloads ==
    {GoodEntry, GoodExit, GoodUpdate}
    \cup {Put(GoodEntry, "signal_type", NotAString)}
    \cup {Put(GoodEntry, k, NotANumber) : k \in {"price", "momentum", "vwap"}}
    \cup {Put(GoodEntry, "symbol", Unhashable), Put(GoodExit, "symbol", Unhashable)}
    \cup {Put(GoodExit, k, NotANumber) :
             k \in {"tp_price", "sl_price", "momentum", "entry_price"}}
    \cup {Put(Put(GoodExit, "symbol", s), "direction", NotAString) :
             s \in {"BTCUSDT", "ETHUSDT"}}
    \cup {Put(GoodUpdate, "price", NotANumber)}
FaultRequests ==
    {[auth |-> TRUE, body |-> p] : p \in FaultPayloads}
    \cup {[auth |-> FALSE, body |-> GoodEntry]}

InitFaults ==
    /\ telegram_bot \in {"None", "Bot"}
    /\ position_states = PriorStore
    /\ now = 0
    /\ pc = [h \in Handlers |-> "idle"]
    /\ payload = [h \in Handlers |-> EmptyDict]
    /\ message = [h \in Handlers |-> NoMessage]
    /\ nreq = 0
    /\ last = NoStep

NextFaults ==
    \/ \E h \in Handlers, req \in FaultRequests : Begin(h, req)
    \/ \E h \in Handlers, outcome \in SinkOutcomes : SendReturn(h, outcome)

SpecFaults == InitFaults /\ [][NextFaults]_vars

\* C19: a handler step that ends in an error response changes no record,
\* whether the exception came from classifying, looking the symbol up,
\* formatting, the sink call or the write itself; a step that does change a
\* record is one whose sink call returned without raising and whose response
\* is the success response.
Thm_C19 ==
    [][ /\ last'.response.status = 500 => position_states' = position_states
        /\ position_states' # position_states
              => /\ last'.delivered \in {"ok", "failed"}
                 /\ Succeeds ]_vars

\* an entry with a price that is not a number, for a symbol that has a
\* record, was answered with an error; the store is as it was at the start
Wit_C19 ==
    /\ last.step = "begin"
    /\ last.path = "entry"
    /\ Get(last.req, "price", 0) = NotANumber
    /\ last.before = "accumulating"
    /\ last.response.status = 500
    /\ position_states = PriorStore

(***************************************************************************)
(* format_entry_signal on its own: the payload of handler 1 is an entry    *)
(* payload with any momentum of a range (in tenths) or none, and the only  *)
(* step formats it.                                                        *)
(***************************************************************************)
MaxMomentumTenths == 60
EntryPayloads ==
    {[signal_type |-> <<"e","n","t","r","y","_","l","o","n","g">>,
      symbol |-> "BTCUSDT", price |-> 2]}
    \cup {[signal_type |-> <<"e","n","t","r","y","_","l","o","n","g">>,
           symbol |-> "BTCUSDT", price |-> 2, momentum |-> m] :
             m \in (-MaxMomentumTenths)..MaxMomentumTenths}

InitEntryFormat ==
    /\ telegram_bot = "None"
    /\ position_states = EmptyDict
    /\ now = 0
    /\ pc = [h \in Handlers |-> "idle"]
    /\ payload \in {[h \in Handlers |-> IF h = 1 THEN p ELSE EmptyDict] :
                       p \in EntryPayloads}
    /\ message = [h \in Handlers |-> NoMessage]
    /\ nreq = 0
    /\ last = NoStep

\* bot.py:239: message = format_entry_signal(payload)
FormatEntry ==
    /\ message[1] = NoMessage
    /\ message' = [message EXCEPT ![1] = format_entry_signal(payload[1], now)]
    /\ UNCHANGED <<telegram_bot, position_states, now, pc, payload, nreq, last>>

SpecEntryFormat == InitEntryFormat /\ [][FormatEntry]_vars

\* C20: the entry message has the "below" label exactly when the momentum is
\* less than -5.1 and the "above" label for every other momentum: -5.1
\* itself, everything between -5.1 and +5.1, everything above, and an absent
\* momentum (0); -5.3 gives below, 5.4 gives above.
Thm_C20 ==
    message[1].kind = "entry" =>
        LET m == Get(payload[1], "momentum", 0)
        IN  /\ message[1].momentum = m
            /\ message[1].qualifier \in {"below", "above"}
            /\ message[1].qualifier = "below" <=> 10 * m < -510
            /\ m = -53 => message[1].qualifier = "below"
            /\ m = 54 => message[1].qualifier = "above"
            /\ m = -51 => message[1].qualifier = "above"

\* the entry message for momentum -5.1 itself has the "above" label
Wit_C20 ==
    /\ message[1].kind = "entry"
    /\ "momentum" \in DOMAIN payload[1]
    /\ payload[1].momentum = -51
    /\ message[1].qualifier = "above"

====
